---- MODULE Spec2Model ----
(***************************************************************************)
(* A model of src/index.js, the esbuild plugin `cssModules`: the load hook *)
(* for *.module.css files (transform, cache write, synthesis of the        *)
(* JavaScript module), the load hook of the css-modules namespace (the     *)
(* lookup in transpiledCssModulesMap), and the evaluation of the generated *)
(* JavaScript text by the bundle's runtime.                                *)
(*                                                                         *)
(* Text is a sequence of tokens.  The four characters JSON.stringify or a  *)
(* JavaScript string literal treat specially are tokens of their own; any  *)
(* other token stands for ordinary characters that pass through unchanged. *)
(***************************************************************************)
EXTENDS Integers, Sequences, FiniteSets, TLC

VARIABLES
  transpiledCssModulesMap, \* index.js:25, the Map id -> {code, resolveDir}
  loadResult,              \* per source path: what the last onLoad call gave
  virtualResult,           \* what the last css-modules onLoad call gave
  bundled,                 \* history: the paths handed to lightningcss bundle()
  lastOk,                  \* history: per path, code and map of the last successful transform
  lastExports              \* history: per path, the exports its latest request got from bundle()

vars == <<transpiledCssModulesMap, loadResult, virtualResult, bundled, lastOk, lastExports>>

\* ------------------------------------------------------------ characters

SQ == "'"
DQ == "\""
BS == "\\"
LF == "\n"

\* ------------------------------------------------------------ bounds

\* Longest class name of the character-level inputs.
MaxNameLen == 2
\* Most compositions of one export entry in the structural inputs.
MaxComposes == 2

\* ------------------------------------------------------------ helpers

RECURSIVE Flatten(_)
Flatten(ss) == IF ss = <<>> THEN <<>> ELSE Head(ss) \o Flatten(Tail(ss))

Reverse(seq) == [i \in 1..Len(seq) |-> seq[Len(seq) + 1 - i]]

\* All sequences over S of length 0..n.
RECURSIVE SeqsUpTo(_, _)
SeqsUpTo(S, n) ==
  IF n = 0 THEN {<<>>}
  ELSE LET shorter == SeqsUpTo(S, n - 1)
       IN  shorter \cup {Append(s, x) : s \in shorter, x \in S}

\* ------------------------------------------------------------ JSON.stringify

\* JSON.stringify of one character of a string (the characters of the model).
JsonEscapeChar(c) ==
  CASE c = DQ -> <<BS, DQ>>
    [] c = BS -> <<BS, BS>>
    [] c = LF -> <<BS, "n">>
    [] OTHER  -> <<c>>

\* index.js:84  const quote = JSON.stringify
quote(string) ==
  <<DQ>> \o Flatten([i \in 1..Len(string) |-> JsonEscapeChar(string[i])]) \o <<DQ>>

\* index.js:86  const escape = (string) => JSON.stringify(string).slice(1, -1)
escape(string) == SubSeq(quote(string), 2, Len(quote(string)) - 1)

\* ------------------------------------------------------------ camelCase

\* The npm package camelcase (index.js:5, called at index.js:131) on names
\* made of lower-case letters, upper-case letters and the separator "-",
\* with no two upper-case letters in a row: a separator is put before an
\* upper-case letter that follows a lower-case one, leading separators are
\* dropped, everything is lower-cased, and then every run of separators is
\* removed and the character after it upper-cased.
LowerCase == {"a", "b", "x"}
UpperCase == {"A", "B", "X"}
Separators == {"-"}

toLowerCase(c) ==
  CASE c = "A" -> "a" [] c = "B" -> "b" [] c = "X" -> "x" [] OTHER -> c

toUpperCase(c) ==
  CASE c = "a" -> "A" [] c = "b" -> "B" [] c = "x" -> "X" [] OTHER -> c

RECURSIVE preserveCamelCase(_, _)
preserveCamelCase(string, isLastCharLower) ==
  IF string = <<>> THEN <<>>
  ELSE IF isLastCharLower /\ Head(string) \in UpperCase
       THEN <<"-", Head(string)>> \o preserveCamelCase(Tail(string), FALSE)
       ELSE <<Head(string)>> \o preserveCamelCase(Tail(string), Head(string) \in LowerCase)

RECURSIVE StripLeadingSeparators(_)
StripLeadingSeparators(string) ==
  IF string # <<>> /\ Head(string) \in Separators
  THEN StripLeadingSeparators(Tail(string))
  ELSE string

RECURSIVE postProcess(_, _)
postProcess(string, afterSeparator) ==
  IF string = <<>> THEN <<>>
  ELSE IF Head(string) \in Separators THEN postProcess(Tail(string), TRUE)
  ELSE <<IF afterSeparator THEN toUpperCase(Head(string)) ELSE Head(string)>>
         \o postProcess(Tail(string), FALSE)

camelCase(input) ==
  IF Len(input) = 0 THEN <<>>
  ELSE IF Len(input) = 1
       THEN IF input[1] \in Separators THEN <<>> ELSE <<toLowerCase(input[1])>>
  ELSE LET hasUpperCase == \E i \in 1..Len(input) : input[i] \in UpperCase
           split == IF hasUpperCase THEN preserveCamelCase(input, FALSE) ELSE input
           stripped == StripLeadingSeparators(split)
           lowered == [i \in 1..Len(stripped) |-> toLowerCase(stripped[i])]
       IN  postProcess(lowered, FALSE)

\* ------------------------------------------------------------ paths, identity

\* path.dirname of a path given as its segments (index.js:81).
RECURSIVE JoinPath(_)
JoinPath(segments) ==
  IF Len(segments) = 0 THEN "."
  ELSE IF Len(segments) = 1 THEN segments[1]
  ELSE segments[1] \o "/" \o JoinPath(Tail(segments))

dirname(path) == JoinPath(SubSeq(path, 1, Len(path) - 1))

\* createHash('sha256').update(path).digest('base64url'): the digest is a
\* symbolic term over the path string, equal exactly for equal paths.
Digest(path) == "sha256<" \o JoinPath(path) \o ">"

\* index.js:75
Identify(path) == "css-modules://" \o Digest(path) \o ".css"

\* index.js:77  the compiled stylesheet followed by its inline source map;
\* base64 of the map is a symbolic term over the map.
FinalCode(code, map) ==
  <<code, "/*# sourceMappingURL=data:application/json;base64,",
    "base64<" \o map \o ">", " */">>

\* ------------------------------------------------------------ synthesis

\* index.js:138
emptyishSourceMap ==
  "data:application/json;base64,eyJ2ZXJzaW9uIjozLCJzb3VyY2VzIjpbIiJdLCJtYXBwaW5ncyI6IkEifQ=="

\* The Map `dependencies` (index.js:91) is a sequence of [path, name] in
\* insertion order; has, get and size as the Map gives them.
DependenciesHas(dependencies, path) ==
  \E i \in 1..Len(dependencies) : dependencies[i].path = path

DependenciesGet(dependencies, path) ==
  dependencies[CHOOSE i \in 1..Len(dependencies) : dependencies[i].path = path].name

\* A slip: the number of the binding is left out of its name.
DependenciesName_Unnumbered(dependencies) == "dependency_0"

\* index.js:98
DependenciesName(dependencies) == "dependency_" \o ToString(Len(dependencies))

\* A slip: the import statement is added where the text ends.
PrependImport_AtEnd(statement, contents) == contents \o statement

\* index.js:100  the import statement goes in front of what is there already.
PrependImport(statement, contents) == statement \o contents

\* index.js:94-103.  st = [contents, dependencies]; the result adds the name
\* the call returns.
importDependency(st, path) ==
  IF DependenciesHas(st.dependencies, path)
  THEN [contents |-> st.contents, dependencies |-> st.dependencies,
        name |-> DependenciesGet(st.dependencies, path)]
  ELSE LET dependenciesName == DependenciesName(st.dependencies)
       IN  [contents |-> PrependImport(
                           <<"import ", dependenciesName, " from ">> \o quote(path) \o <<LF>>,
                           st.contents),
            dependencies |-> Append(st.dependencies,
                                    [path |-> path, name |-> dependenciesName]),
            name |-> dependenciesName]

\* index.js:115 and 119: a local or global name goes into the open literal.
LiteralFragment(name) == <<" ">> \o escape(name)

\* index.js:123: the literal is closed, the lookup added, a literal reopened.
DependencyFragment(binding, name) ==
  <<" ", SQ, " + ", binding, "[">> \o quote(name) \o <<"]", " + ", SQ>>

\* index.js:113-125, one composition.
\* acc = [contents, dependencies, compiledCssClasses].
ComposeStep(acc, composition) ==
  CASE composition.type \in {"local", "global"} ->
         [acc EXCEPT !.compiledCssClasses = @ \o LiteralFragment(composition.name)]
    [] composition.type = "dependency" ->
         LET dep == importDependency([contents |-> acc.contents,
                                      dependencies |-> acc.dependencies],
                                     composition.specifier)
         IN  [contents |-> dep.contents,
              dependencies |-> dep.dependencies,
              compiledCssClasses |->
                acc.compiledCssClasses \o DependencyFragment(dep.name, composition.name)]
    [] OTHER -> acc

\* index.js:112
RECURSIVE ComposeLoop(_, _, _)
ComposeLoop(acc, composes, k) ==
  IF k > Len(composes) THEN acc
  ELSE ComposeLoop(ComposeStep(acc, composes[k]), composes, k + 1)

\* index.js:109-132, one entry of Object.entries(exports).
EntryStep(st, cssClassReadableName, cssClassExport) ==
  LET acc == ComposeLoop([contents |-> st.contents,
                          dependencies |-> st.dependencies,
                          compiledCssClasses |-> <<SQ>> \o escape(cssClassExport.name)],
                         cssClassExport.composes, 1)
      compiledCssClasses == acc.compiledCssClasses \o <<SQ>>
      jsName == camelCase(cssClassReadableName)
  IN  [contents |-> acc.contents \o quote(jsName) \o <<":">> \o compiledCssClasses \o <<",">>,
       dependencies |-> acc.dependencies]

\* A slip: the entries are walked from the last to the first.
ObjectEntries_Reversed(exports) == Reverse(exports)

\* index.js:108  Object.entries(exports): the entries in the table's order.
ObjectEntries(exports) == exports

RECURSIVE ExportLoop(_, _, _)
ExportLoop(st, entries, k) ==
  IF k > Len(entries) THEN st
  ELSE ExportLoop(EntryStep(st, entries[k].readable, entries[k].export), entries, k + 1)

\* index.js:88-139: the text of the JavaScript module.
Synthesize(id, exports) ==
  LET start == [contents |-> <<"import ">> \o quote(<<id>>) \o <<LF>> \o <<"export default {">>,
                dependencies |-> <<>>]
      done == ExportLoop(start, ObjectEntries(exports), 1)
  IN  done.contents \o <<"}">> \o <<LF, "//# sourceMappingURL=", emptyishSourceMap>>

\* ------------------------------------------------------------ the runtime
\* What the JavaScript engine makes of the generated text: string literals,
\* the + of strings, the lookup binding["key"], import statements and the
\* object literal of the default export.

SyntaxError == [ok |-> FALSE]

\* The two kinds of operand of +.
Literal(text) == [kind |-> "literal", text |-> text]
Lookup(binding, key) == [kind |-> "lookup", binding |-> binding, key |-> key]

\* The character an escape sequence of a string literal stands for; a
\* backslash before a line terminator is a line continuation.
Unescape(c) ==
  CASE c = "n" -> <<LF>>
    [] c = LF  -> <<>>
    [] OTHER   -> <<c>>

\* A string literal opened with q, read from position j (after the opening
\* quote): it ends at the first q that no backslash precedes; a line
\* terminator inside it is a syntax error.
RECURSIVE ScanString(_, _, _, _)
ScanString(t, j, q, acc) ==
  IF j > Len(t) THEN SyntaxError
  ELSE IF t[j] = q THEN [ok |-> TRUE, val |-> acc, next |-> j + 1]
  ELSE IF t[j] = LF THEN SyntaxError
  ELSE IF t[j] = BS
       THEN IF j + 1 > Len(t) THEN SyntaxError
            ELSE ScanString(t, j + 2, q, acc \o Unescape(t[j + 1]))
  ELSE ScanString(t, j + 1, q, Append(acc, t[j]))

ParseString(t, i) ==
  IF i <= Len(t) /\ t[i] \in {SQ, DQ} THEN ScanString(t, i + 1, t[i], <<>>)
  ELSE SyntaxError

Punctuation ==
  {SQ, DQ, BS, LF, " ", " + ", "[", "]", ":", ",", "}", "import ", " from ",
   "export default {", "//# sourceMappingURL="}

\* One operand of +: a string literal or binding["key"].
ParseTerm(t, i) ==
  IF i > Len(t) THEN SyntaxError
  ELSE IF t[i] \in {SQ, DQ}
       THEN LET s == ParseString(t, i)
            IN  IF s.ok THEN [ok |-> TRUE, next |-> s.next,
                              term |-> Literal(s.val)]
                ELSE SyntaxError
  ELSE IF t[i] \notin Punctuation /\ i + 1 <= Len(t) /\ t[i + 1] = "["
       THEN LET s == ParseString(t, i + 2)
            IN  IF s.ok /\ s.next <= Len(t) /\ t[s.next] = "]"
                THEN [ok |-> TRUE, next |-> s.next + 1,
                      term |-> Lookup(t[i], s.val)]
                ELSE SyntaxError
  ELSE SyntaxError

\* term + term + ... from position i; the expression ends where no + follows.
RECURSIVE ParseSum(_, _, _)
ParseSum(t, i, acc) ==
  LET x == ParseTerm(t, i)
  IN  IF ~x.ok THEN SyntaxError
      ELSE IF x.next <= Len(t) /\ t[x.next] = " + "
           THEN ParseSum(t, x.next + 1, Append(acc, x.term))
           ELSE [ok |-> TRUE, terms |-> Append(acc, x.term), next |-> x.next]

\* The import statements at the head of the text, in the order written:
\* import "spec" (binding "") and import binding from "spec".
RECURSIVE ParseImports(_, _, _)
ParseImports(t, i, acc) ==
  IF i > Len(t) \/ t[i] # "import "
  THEN [ok |-> TRUE, imports |-> acc, next |-> i]
  ELSE LET bound == i + 2 <= Len(t) /\ t[i + 1] \notin Punctuation /\ t[i + 2] = " from "
           s == ParseString(t, IF bound THEN i + 3 ELSE i + 1)
       IN  IF s.ok /\ s.next <= Len(t) /\ t[s.next] = LF
           THEN ParseImports(t, s.next + 1,
                  Append(acc, [binding |-> IF bound THEN t[i + 1] ELSE "",
                               specifier |-> s.val]))
           ELSE SyntaxError

\* The properties "key":expression, of the object literal, up to its }.
RECURSIVE ParseProperties(_, _, _)
ParseProperties(t, i, acc) ==
  IF i > Len(t) THEN SyntaxError
  ELSE IF t[i] = "}" THEN [ok |-> TRUE, properties |-> acc, next |-> i + 1]
  ELSE LET k == ParseString(t, i)
       IN  IF ~(k.ok /\ k.next <= Len(t) /\ t[k.next] = ":") THEN SyntaxError
           ELSE LET e == ParseSum(t, k.next + 1, <<>>)
                IN  IF e.ok /\ e.next <= Len(t) /\ t[e.next] = ","
                    THEN ParseProperties(t, e.next + 1,
                           Append(acc, [key |-> k.val, terms |-> e.terms]))
                    ELSE SyntaxError

\* The whole module: imports, export default {...}, then a line comment.
ParseModule(t) ==
  LET im == ParseImports(t, 1, <<>>)
  IN  IF ~(im.ok /\ im.next <= Len(t) /\ t[im.next] = "export default {")
      THEN SyntaxError
      ELSE LET pr == ParseProperties(t, im.next + 1, <<>>)
           IN  IF pr.ok /\ pr.next + 1 <= Len(t) /\ t[pr.next] = LF
                        /\ t[pr.next + 1] = "//# sourceMappingURL="
               THEN [ok |-> TRUE, imports |-> im.imports, properties |-> pr.properties]
               ELSE SyntaxError

\* An object value is the sequence of its properties as written; a key
\* written twice holds what was written last, a missing key is undefined.
ObjectHas(object, key) == \E i \in 1..Len(object) : object[i].key = key

ObjectGet(object, key) ==
  IF ObjectHas(object, key)
  THEN LET last == CHOOSE i \in 1..Len(object) :
                     /\ object[i].key = key
                     /\ \A j \in (i + 1)..Len(object) : object[j].key # key
       IN  object[last].value
  ELSE <<"undefined">>

\* The value of a sum of terms.  env maps each imported binding to the
\* object its module exports by default.
RECURSIVE EvalTerms(_, _)
EvalTerms(terms, env) ==
  IF terms = <<>> THEN <<>>
  ELSE LET x == Head(terms)
       IN  (IF x.kind = "literal" THEN x.text ELSE ObjectGet(env[x.binding], x.key))
             \o EvalTerms(Tail(terms), env)

\* The value of a sum of terms with the lookups left open: adjacent literals
\* run together, an empty literal adds nothing.
RECURSIVE SymbolicValue(_, _)
SymbolicValue(terms, pending) ==
  LET flush == IF pending = <<>> THEN <<>> ELSE <<Literal(pending)>>
  IN  IF terms = <<>> THEN flush
      ELSE IF Head(terms).kind = "literal"
           THEN SymbolicValue(Tail(terms), pending \o Head(terms).text)
           ELSE flush \o <<Head(terms)>> \o SymbolicValue(Tail(terms), <<>>)

\* The default export of a parsed module with the lookups left open.
SymbolicObject(module) ==
  [i \in 1..Len(module.properties) |->
     [key |-> module.properties[i].key,
      value |-> SymbolicValue(module.properties[i].terms, <<>>)]]

\* The default export of a parsed module, given the objects of its imports.
EvalModule(module, env) ==
  [i \in 1..Len(module.properties) |->
     [key |-> module.properties[i].key,
      value |-> EvalTerms(module.properties[i].terms, env)]]
\* ------------------------------------------------------------ the plugin

PathA == <<"src", "a.module.css">>
PathB == <<"src", "b.module.css">>
PathV == <<"vendor", "v.module.css">>
PathPlain == <<"src", "plain.css">>
Paths == {PathA, PathB, PathV, PathPlain}

\* index.js:43  options.includeFilter ?? /\.module\.css$/ tested by esbuild
\* before it calls the hook.
includeFilter(path) == path[Len(path)] \in {"a.module.css", "b.module.css", "v.module.css"}

\* options.excludeFilter, here /vendor/ (index.js:44).
excludeFilter(path) == \E i \in 1..Len(path) : path[i] = "vendor"

\* A slip: the exclusion filter is asked only about paths the inclusion
\* filter does not match.
Excluded_UnlessIncluded(path) == excludeFilter(path) /\ ~includeFilter(path)

\* index.js:44-46  the hook returns at once for an excluded path.
Excluded(path) == excludeFilter(path)

\* index.js:38  initialOptions.loader?.['.css'] ?? 'css', no loader configured.
CssLoader == "css"

\* Map.prototype.get and set on transpiledCssModulesMap; a Map is a function
\* on the keys it holds.
MapHas(map, key) == key \in DOMAIN map

MapSet(map, key, value) ==
  [k \in DOMAIN map \cup {key} |-> IF k = key THEN value ELSE map[k]]

\* A slip: an identity that has an entry keeps it.
CacheWrite_KeepFirst(map, path, id, finalCode) ==
  IF MapHas(map, id) THEN map
  ELSE MapSet(map, id, [code |-> finalCode, resolveDir |-> dirname(path)])

\* A slip: the entry is stored under the source path, not the identity.
CacheWrite_UnderPath(map, path, id, finalCode) ==
  MapSet(map, JoinPath(path), [code |-> finalCode, resolveDir |-> dirname(path)])

\* A slip: the map is made anew for every request.
CacheWrite_FreshMap(map, path, id, finalCode) ==
  MapSet(<<>>, id, [code |-> finalCode, resolveDir |-> dirname(path)])

\* index.js:79-82
CacheWrite(map, path, id, finalCode) ==
  MapSet(map, id, [code |-> finalCode, resolveDir |-> dirname(path)])

Undefined == [kind |-> "undefined"]
Thrown == [kind |-> "thrown"]
NotCalled == [kind |-> "none"]

\* index.js:43-145: one call of the load hook for `path`, where bundle()
\* (index.js:52) behaves as `out` says: it throws, or gives code, map and
\* exports (hasExports is FALSE when rslt.exports is undefined).  The hook
\* has no await: it runs to its return in one step.
Load(path, out) ==
  /\ includeFilter(path)
  /\ IF Excluded(path)
     THEN /\ loadResult' = [loadResult EXCEPT ![path] = Undefined]
          /\ lastExports' = [lastExports EXCEPT ![path] = <<>>]
          /\ UNCHANGED <<transpiledCssModulesMap, bundled, lastOk>>
     ELSE /\ bundled' = bundled \cup {path}
          /\ IF out.kind = "throw"
             THEN /\ loadResult' = [loadResult EXCEPT ![path] = Thrown]
                  /\ lastExports' = [lastExports EXCEPT ![path] = <<>>]
                  /\ UNCHANGED <<transpiledCssModulesMap, lastOk>>
             ELSE IF ~out.hasExports
             THEN /\ loadResult' = [loadResult EXCEPT ![path] = Undefined]
                  /\ lastExports' = [lastExports EXCEPT ![path] = <<>>]
                  /\ UNCHANGED <<transpiledCssModulesMap, lastOk>>
             ELSE LET id == Identify(path)
                      finalCode == FinalCode(out.code, out.map)
                  IN  /\ transpiledCssModulesMap' =
                           CacheWrite(transpiledCssModulesMap, path, id, finalCode)
                      /\ loadResult' = [loadResult EXCEPT ![path] =
                           [kind |-> "js", contents |-> Synthesize(id, out.exports),
                            loader |-> "js"]]
                      /\ lastOk' = [lastOk EXCEPT ![path] =
                           [set |-> TRUE, code |-> out.code, map |-> out.map]]
                      /\ lastExports' = [lastExports EXCEPT ![path] = out.exports]
  /\ UNCHANGED virtualResult

\* index.js:34-41: the load hook of the css-modules namespace.  Destructuring
\* the undefined that get() gives for a missing key throws a TypeError.
VirtualLookup(map, path) ==
  IF MapHas(map, path)
  THEN [kind |-> "css", path |-> path, contents |-> map[path].code,
        loader |-> CssLoader, resolveDir |-> map[path].resolveDir]
  ELSE [kind |-> "thrown", path |-> path]

\* index.js:27-32: the resolve hook takes the specifiers that start with
\* css-modules:// and hands the path on unchanged.
VirtualIds == {Identify(p) : p \in Paths}

\* The specifiers esbuild finds in the modules returned so far.
ImportedBy(contents) ==
  LET im == ParseImports(contents, 1, <<>>)
  IN  IF im.ok THEN {im.imports[i].specifier : i \in 1..Len(im.imports)} ELSE {}

ImportedSpecifiers ==
  UNION {ImportedBy(loadResult[p].contents) :
           p \in {q \in Paths : loadResult[q].kind = "js"}}

\* esbuild resolves and loads an imported css-modules:// specifier.
VirtualLoad(id) ==
  /\ <<id>> \in ImportedSpecifiers
  /\ virtualResult' = VirtualLookup(transpiledCssModulesMap, id)
  /\ UNCHANGED <<transpiledCssModulesMap, loadResult, bundled, lastOk, lastExports>>

\* ------------------------------------------------------------ inputs

Codes == {"c1", "c2"}
Maps == {"m"}

ReadableNames == {<<"x">>, <<"a", "-", "b">>, <<"a", "B">>}

\* The compiled name lightningcss gives a class under the default pattern
\* [hash]_[local] (index.js:48).
CompiledName(path, readable) == <<"h" \o path[Len(path)], "_">> \o readable

Local(name) == [type |-> "local", name |-> name, specifier |-> <<>>]
Global(name) == [type |-> "global", name |-> name, specifier |-> <<>>]
Dependency(specifier, name) == [type |-> "dependency", name |-> name, specifier |-> specifier]

Entry(readable, name, composes) ==
  [readable |-> readable, export |-> [name |-> name, composes |-> composes]]

SpecifierB == <<"./b.module.css">>
SpecifierV == <<"../vendor/v.module.css">>

\* How esbuild resolves the specifiers of the model from a file in src/.
ResolveSpecifier(specifier) ==
  CASE specifier = SpecifierB -> PathB
    [] specifier = SpecifierV -> PathV
    [] OTHER -> PathPlain

\* The export tables of the requests.  a.module.css has one class, which
\* may compose a class of b.module.css; b.module.css composes from no file
\* and has one class, or two whose readable names share an accessor key.
ExportTables(path) ==
  IF path = PathA
  THEN {<<>>, <<Entry(<<"x">>, CompiledName(path, <<"x">>), <<>>)>>}
       \cup {<<Entry(<<"x">>, CompiledName(path, <<"x">>), <<Dependency(SpecifierB, r)>>)>> :
               r \in ReadableNames}
  ELSE {<<>>}
       \cup {<<Entry(r, CompiledName(path, r), <<>>)>> : r \in ReadableNames}
       \cup {<<Entry(rr[1], CompiledName(path, rr[1]), <<>>),
                Entry(rr[2], CompiledName(path, rr[2]), <<>>)>> :
               rr \in {x \in ReadableNames \X ReadableNames :
                         x[1] # x[2] /\ camelCase(x[1]) = camelCase(x[2])}}

OkOutcome(code, map, exports) ==
  [kind |-> "ok", code |-> code, map |-> map, hasExports |-> TRUE, exports |-> exports]

BundleOutcomes(path) ==
  {[kind |-> "throw"],
   [kind |-> "ok", code |-> "c1", map |-> "m", hasExports |-> FALSE, exports |-> <<>>]}
  \cup {OkOutcome(c, m, t) : c \in Codes, m \in Maps, t \in ExportTables(path)}

\* ------------------------------------------------------------ specification

NoneYet == [set |-> FALSE, code |-> "", map |-> ""]

Init ==
  /\ transpiledCssModulesMap = <<>>
  /\ loadResult = [p \in Paths |-> NotCalled]
  /\ virtualResult = [kind |-> "none"]
  /\ bundled = {}
  /\ lastOk = [p \in Paths |-> NoneYet]
  /\ lastExports = [p \in Paths |-> <<>>]

Next ==
  \/ \E p \in Paths : \E out \in BundleOutcomes(p) : Load(p, out)
  \/ \E id \in VirtualIds : VirtualLoad(id)

Spec == Init /\ [][Next]_vars
\* ------------------------------------------------------------ synthesis alone
\* One request for a.module.css over a wide family of export tables.

\* Character-level names: an ordinary character and the four that a string
\* literal or JSON.stringify treats specially.
Chars == {"n", SQ, DQ, BS, LF}
Names == SeqsUpTo(Chars, MaxNameLen) \ {<<>>}

TextTables ==
  {<<Entry(<<"x">>, n, c)>> :
     n \in Names, c \in {<<>>} \cup {<<Local(m)>> : m \in Names}
                               \cup {<<Global(m)>> : m \in Names}}

\* Structural tables: one or two classes, each with up to MaxComposes
\* compositions of the three kinds, over two specifiers.
CompositionChoices ==
  {Local(CompiledName(PathA, <<"b">>)), Global(<<"glb">>),
   Dependency(SpecifierB, <<"x">>), Dependency(SpecifierV, <<"a", "-", "b">>)}

ComposesChoices == SeqsUpTo(CompositionChoices, MaxComposes)

StructuralTables ==
  {<<Entry(r, CompiledName(PathA, r), c)>> : r \in ReadableNames, c \in ComposesChoices}
  \cup {<<Entry(rr[1], CompiledName(PathA, rr[1]), c1),
           Entry(rr[2], CompiledName(PathA, rr[2]), c2)>> :
          rr \in {x \in ReadableNames \X ReadableNames : x[1] # x[2]},
          c1 \in ComposesChoices, c2 \in ComposesChoices}

SynthTables == {<<>>} \cup TextTables \cup StructuralTables

\* esbuild asks for a.module.css once.
SynthNext ==
  /\ loadResult[PathA] = NotCalled
  /\ \E t \in SynthTables : Load(PathA, OkOutcome("c1", "m", t))

SynthSpec == Init /\ [][SynthNext]_vars
\* ------------------------------------------------------------ properties

Returned(p) == loadResult[p].kind = "js"
ModuleText(p) == loadResult[p].contents
\* The export table the returned module of p was made from.
TableOf(p) == lastExports[p]

IsDependency(composition) == composition.type = "dependency"
IsLookup(term) == term.kind = "lookup"

\* The specifiers of the Dependency compositions of a table, in the order
\* the walk meets them (entries in table order, compositions in declared
\* order), each at its first reference only.
RECURSIVE FirstOccurrences(_, _)
FirstOccurrences(seq, seen) ==
  IF seq = <<>> THEN <<>>
  ELSE IF Head(seq) \in seen THEN FirstOccurrences(Tail(seq), seen)
  ELSE <<Head(seq)>> \o FirstOccurrences(Tail(seq), seen \cup {Head(seq)})

ReferencedSpecifiers(table) ==
  Flatten([k \in 1..Len(table) |->
    LET deps == SelectSeq(table[k].export.composes, IsDependency)
    IN  [j \in 1..Len(deps) |-> deps[j].specifier]])

FirstReferenceOrder(table) == FirstOccurrences(ReferencedSpecifiers(table), {})

ImportSpecifiers(imports) == [i \in 1..Len(imports) |-> imports[i].specifier]

\* The export statement follows every import statement of the text.
ExportAfterImports(t, im) ==
  /\ im.next <= Len(t) /\ t[im.next] = "export default {"
  /\ \A i \in 1..Len(t) : t[i] = "import " => i < im.next

\* C1 as claimed: the import of the primary stylesheet identity is the first
\* import, the dependency imports follow it in first-reference order, and the
\* export statement comes after all imports.
C1_PrimaryImportFirst ==
  \A p \in Paths : Returned(p) =>
    LET im == ParseImports(ModuleText(p), 1, <<>>)
    IN  /\ im.ok
        /\ ImportSpecifiers(im.imports)
             = <<<<Identify(p)>>>> \o FirstReferenceOrder(TableOf(p))
        /\ ExportAfterImports(ModuleText(p), im)

\* C1 as the code has it: every dependency import is put in front of the
\* text written so far, so the dependency imports come first, the specifier
\* first referenced last among them, the import of the primary stylesheet
\* identity is the last import, and the export statement comes after all
\* imports.
C1_DependencyImportsPrepended ==
  \A p \in Paths : Returned(p) =>
    LET im == ParseImports(ModuleText(p), 1, <<>>)
    IN  /\ im.ok
        /\ ImportSpecifiers(im.imports)
             = Reverse(FirstReferenceOrder(TableOf(p))) \o <<<<Identify(p)>>>>
        /\ im.imports[Len(im.imports)].binding = ""
        /\ ExportAfterImports(ModuleText(p), im)

\* A module was returned whose table references two specifiers, the second
\* of them first.
C1_Witness ==
  /\ Returned(PathA)
  /\ FirstReferenceOrder(TableOf(PathA)) = <<SpecifierV, SpecifierB>>

IsInfix(x, s) == \E i \in 1..(Len(s) + 1 - Len(x)) : SubSeq(s, i, i + Len(x) - 1) = x

LiteralText(terms) ==
  Flatten([i \in 1..Len(terms) |->
             IF terms[i].kind = "literal" THEN terms[i].text ELSE <<>>])

\* C2: every compiled class name and every Local or Global composition name
\* is written so that the value generated for its entry is one well-formed
\* string expression whose evaluated text holds exactly that name.
C2_NamesStayInsideLiteral ==
  \A p \in Paths : Returned(p) =>
    LET m == ParseModule(ModuleText(p))
        table == TableOf(p)
    IN  /\ m.ok
        /\ Len(m.properties) = Len(table)
        /\ \A k \in 1..Len(table) :
             LET text == LiteralText(m.properties[k].terms)
                 name == table[k].export.name
                 composes == table[k].export.composes
             IN  /\ SubSeq(text, 1, Len(name)) = name
                 /\ \A j \in 1..Len(composes) :
                      composes[j].type \in {"local", "global"}
                        => IsInfix(<<" ">> \o composes[j].name, text)

\* The binding the module imports a specifier under.
BindingFor(imports, specifier) ==
  IF \E i \in 1..Len(imports) : imports[i].specifier = specifier
  THEN imports[CHOOSE i \in 1..Len(imports) : imports[i].specifier = specifier].binding
  ELSE ""

\* What C4 says an entry's value is: the compiled name, then for each
\* composition in declared order a space and the name (Local, Global) or a
\* space and the lookup of the name on the binding of the specifier.
ClaimedValue(entry, imports) ==
  LET composes == entry.export.composes
  IN  SymbolicValue(
        <<Literal(entry.export.name)>>
        \o Flatten([j \in 1..Len(composes) |->
             IF composes[j].type = "dependency"
             THEN <<Literal(<<" ">>),
                    Lookup(BindingFor(imports, composes[j].specifier), composes[j].name)>>
             ELSE <<Literal(<<" ">> \o composes[j].name)>>]),
        <<>>)

\* C4: the value generated for every export entry evaluates to the entry's
\* compiled name followed by the contribution of each composition in
\* declared order, each preceded by exactly one space.
C4_ValueIsNameThenCompositions ==
  \A p \in Paths : Returned(p) =>
    LET m == ParseModule(ModuleText(p))
        table == TableOf(p)
    IN  /\ m.ok
        /\ Len(m.properties) = Len(table)
        /\ \A k \in 1..Len(table) :
             SymbolicValue(m.properties[k].terms, <<>>) = ClaimedValue(table[k], m.imports)

DistinctSpecifiers(table) ==
  {ReferencedSpecifiers(table)[i] : i \in 1..Len(ReferencedSpecifiers(table))}

CountImports(imports, specifier) ==
  Cardinality({i \in 1..Len(imports) : imports[i].specifier = specifier})

\* C3: the module has exactly one import of the primary stylesheet identity
\* and exactly one import per distinct Dependency specifier, and nothing
\* else; every reference to a specifier uses the binding imported for that
\* specifier, and two specifiers never share a binding.
C3_OneImportPerSpecifier ==
  \A p \in Paths : Returned(p) =>
    LET im == ParseImports(ModuleText(p), 1, <<>>)
        table == TableOf(p)
    IN  /\ im.ok
        /\ CountImports(im.imports, <<Identify(p)>>) = 1
        /\ \A s \in DistinctSpecifiers(table) : CountImports(im.imports, s) = 1
        /\ Len(im.imports) = 1 + Cardinality(DistinctSpecifiers(table))
        /\ \A i, j \in 1..Len(im.imports) :
             i # j => im.imports[i].binding # im.imports[j].binding
        /\ \A k \in 1..Len(table) :
             LET deps == SelectSeq(table[k].export.composes, IsDependency)
             IN  deps # <<>> =>
                   LET m == ParseModule(ModuleText(p))
                       lookups == IF m.ok /\ k <= Len(m.properties)
                                  THEN SelectSeq(m.properties[k].terms, IsLookup)
                                  ELSE <<>>
                   IN  /\ Len(lookups) = Len(deps)
                       /\ \A j \in 1..Len(deps) :
                            /\ lookups[j].binding # ""
                            /\ lookups[j].binding = BindingFor(im.imports, deps[j].specifier)

\* A module was returned whose two classes both reference one specifier and
\* one of them a second specifier too.
C3_Witness ==
  /\ Returned(PathA)
  /\ Len(TableOf(PathA)) = 2
  /\ \A k \in 1..2 : \E j \in 1..Len(TableOf(PathA)[k].export.composes) :
       TableOf(PathA)[k].export.composes[j] = Dependency(SpecifierB, <<"x">>)
  /\ Cardinality(DistinctSpecifiers(TableOf(PathA))) = 2

\* C8: when two entries have readable names with one accessor key, the
\* returned module is well formed, its export object holds under that key
\* the value of the later entry, and the value of the earlier entry is under
\* no key.
C8_LaterEntryWins ==
  \A p \in Paths : Returned(p) =>
    LET table == TableOf(p)
    IN  \A i, j \in 1..Len(table) :
          (i < j /\ camelCase(table[i].readable) = camelCase(table[j].readable)) =>
            LET m == ParseModule(ModuleText(p))
            IN  /\ m.ok
                /\ LET object == SymbolicObject(m)
                   IN  /\ ObjectGet(object, camelCase(table[j].readable))
                            = ClaimedValue(table[j], m.imports)
                       /\ \A k \in 1..Len(object) :
                            ObjectGet(object, object[k].key)
                              # ClaimedValue(table[i], m.imports)

\* A module was returned for a table in which a-b comes before aB, both with
\* compositions.
C8_Witness ==
  /\ Returned(PathA)
  /\ Len(TableOf(PathA)) = 2
  /\ TableOf(PathA)[1].readable = <<"a", "-", "b">>
  /\ TableOf(PathA)[2].readable = <<"a", "B">>
  /\ TableOf(PathA)[1].export.composes # <<>>
  /\ TableOf(PathA)[2].export.composes # <<>>
\* C5: the cache entry of an identity is there whenever a returned module
\* imports that identity, and a lookup esbuild makes for an imported
\* identity never fails.
C5_EntryBeforeImport ==
  /\ \A p \in Paths : Returned(p) =>
       /\ <<Identify(p)>> \in ImportedBy(ModuleText(p))
       /\ \A id \in VirtualIds :
            <<id>> \in ImportedBy(ModuleText(p)) => MapHas(transpiledCssModulesMap, id)
  /\ virtualResult.kind # "thrown"

\* esbuild has looked up the identity a returned module imports.
C5_Witness ==
  /\ Returned(PathB)
  /\ virtualResult.kind = "css"
  /\ virtualResult.path = Identify(PathB)

\* C6: distinct paths have distinct identities, and resolving the identity
\* of a path gives the content and the base directory of the most recent
\* successful transform of that path, unchanged.
C6_LastWriteWins ==
  /\ \A p, q \in Paths : p # q => Identify(p) # Identify(q)
  /\ \A p \in Paths : lastOk[p].set =>
       VirtualLookup(transpiledCssModulesMap, Identify(p))
         = [kind |-> "css", path |-> Identify(p),
            contents |-> FinalCode(lastOk[p].code, lastOk[p].map),
            loader |-> CssLoader, resolveDir |-> dirname(p)]

\* A lookup gave the content of a first transform of a.module.css, and a
\* second transform has stored other content since.
C6_Witness ==
  /\ virtualResult.kind = "css"
  /\ virtualResult.path = Identify(PathA)
  /\ virtualResult.contents = FinalCode("c1", "m")
  /\ lastOk[PathA].code = "c2"

Succeeds(p, out) == ~excludeFilter(p) /\ out.kind = "ok" /\ out.hasExports

\* C7: a load request that is excluded, whose transform fails or whose
\* transform gives no export table returns no module and leaves the cache
\* as it was; no excluded path is ever handed to the transformer.
C7_OnlySuccessWrites ==
  /\ [](\A p \in bundled : ~excludeFilter(p))
  /\ [][\A p \in Paths : \A out \in BundleOutcomes(p) :
          (~Succeeds(p, out) /\ Load(p, out)) =>
             /\ transpiledCssModulesMap' = transpiledCssModulesMap
             /\ loadResult'[p].kind \in {"undefined", "thrown"}
             /\ (excludeFilter(p) => bundled' = bundled)]_vars

\* a.module.css is cached, then its transform failed; b.module.css gave no
\* export table; the excluded path was requested.
C7_Witness ==
  /\ MapHas(transpiledCssModulesMap, Identify(PathA))
  /\ loadResult[PathA].kind = "thrown"
  /\ loadResult[PathB].kind = "undefined"
  /\ ~MapHas(transpiledCssModulesMap, Identify(PathB))
  /\ loadResult[PathV].kind = "undefined"

MapEntry(map, key) == IF MapHas(map, key) THEN <<map[key]>> ELSE <<>>

\* C9: a request for a path changes at most the cache entry of that path's
\* identity and the result of that request; a failed transform is raised to
\* that request and leaves every other result and entry as it was.
C9_RequestsIndependent ==
  [][\A p \in Paths : \A out \in BundleOutcomes(p) :
       Load(p, out) =>
         /\ \A q \in Paths \ {p} :
              /\ loadResult'[q] = loadResult[q]
              /\ MapEntry(transpiledCssModulesMap', Identify(q))
                   = MapEntry(transpiledCssModulesMap, Identify(q))
         /\ DOMAIN transpiledCssModulesMap'
              \subseteq DOMAIN transpiledCssModulesMap \cup {Identify(p)}
         /\ (out.kind = "throw" /\ ~excludeFilter(p)) =>
              /\ loadResult'[p] = Thrown
              /\ transpiledCssModulesMap' = transpiledCssModulesMap]_vars

\* b.module.css was returned and cached, and the transform of a.module.css
\* has failed.
C9_Witness ==
  /\ Returned(PathB)
  /\ MapHas(transpiledCssModulesMap, Identify(PathB))
  /\ loadResult[PathA].kind = "thrown"

\* The object a module without dependency imports exports.
LeafObject(p) == EvalModule(ParseModule(ModuleText(p)), <<>>)

\* The objects behind the bindings of a module whose dependencies import
\* no further file.
ImportedObjects(module) ==
  LET bound == {i \in 1..Len(module.imports) : module.imports[i].binding # ""}
  IN  [b \in {module.imports[i].binding : i \in bound} |->
         LeafObject(ResolveSpecifier(
           module.imports[CHOOSE i \in bound : module.imports[i].binding = b].specifier))]

\* C10: when a class of F composes Dependency(G, x) and G's table has an
\* entry named x, the class's value in F's evaluated module is its compiled
\* name, a space, and what G's module exposes for x (under the accessor key
\* of x).
C10_DependencyValueResolves ==
  \A F, G \in Paths : (Returned(F) /\ Returned(G)) =>
    \A k \in 1..Len(TableOf(F)) :
      LET entry == TableOf(F)[k]
          composes == entry.export.composes
      IN  (/\ Len(composes) = 1
           /\ composes[1].type = "dependency"
           /\ ResolveSpecifier(composes[1].specifier) = G
           /\ \E g \in 1..Len(TableOf(G)) : TableOf(G)[g].readable = composes[1].name)
          => LET m == ParseModule(ModuleText(F))
                 object == EvalModule(m, ImportedObjects(m))
             IN  ObjectGet(object, camelCase(entry.readable))
                   = entry.export.name \o <<" ">>
                       \o ObjectGet(LeafObject(G), camelCase(composes[1].name))

====
